---- MODULE Spec2Model ----
(***************************************************************************)
(* Model of the haiku_execute tool call of haiku-mcp-server: the server's   *)
(* handler and handleExecute, the transaction execution orchestrator, with  *)
(* the pure helpers around it.  One run of handleExecute is a               *)
(* state machine whose steps are the synchronous stretches between its     *)
(* awaits; the outcomes of the collaborators (RPC reads, submissions,      *)
(* receipt waits, typed-data signing, the remote solve call) are chosen    *)
(* nondeterministically.                                                   *)
(***************************************************************************)
EXTENDS Integers, Sequences, FiniteSets, TLC

\* ------------------------------------------------------------------ bounds
\* Longest approvals list a caller passes.
MaxApprovals == 3
\* A chain id that is in no table of the program.
UnsupportedId == 999999999
\* Longest sequence inside a value handed to a normalizer.
MaxItems == 2

\* ------------------------------------------------------- program constants
\* The chain used when neither the payload nor the caller names one.
DefaultChainId == 42161

\* Keys of CHAIN_MAP.
CHAIN_MAP ==
    { 1, 10, 56, 100, 137, 146, 480, 534352, 1135, 1329, 8453, 42161, 43114,
      80094, 60808, 999, 747474, 143, 9745, 130, 33139 }

\* --------------------------------------------------------- JavaScript values
\* A value found where a chain id is expected: undefined, a number, or a
\* string spelling the number n in hexadecimal ("0xa").
Undefined == [t |-> "undefined", n |-> 0]
NumId(n) == [t |-> "number", n |-> n]
HexStrId(n) == [t |-> "string", n |-> n]

\* JavaScript truthiness of such a value: undefined and 0 are falsy, every
\* non-empty string is truthy.
Truthy(v) == \/ v.t = "number" /\ v.n # 0
             \/ v.t = "string"

\* a || b
OrElse(a, b) == IF Truthy(a) THEN a ELSE b

\* A signature slot: absent (undefined), the empty string, or a signature.
Absent == "<undefined>"
Empty == ""
TruthyStr(s) == s # Absent /\ s # Empty

\* ------------------------------------------------------------------ inputs
\* domain.chainId of a permit2 payload: left out, a supported chain, an
\* unsupported one, or the hexadecimal string a normalized payload carries.
DomainChainIds ==
    { Undefined, NumId(10), NumId(UnsupportedId), HexStrId(10) }

\* permit2SigningPayload: absent, or a payload whose domain.chainId is d.
NoPayload == [present |-> FALSE, domainChainId |-> Undefined]
Permit2Payloads ==
    { NoPayload } \cup { [present |-> TRUE, domainChainId |-> d] : d \in DomainChainIds }

\* const SLUG_TO_CHAIN_ID of quote.ts.
SLUG_TO_CHAIN_ID ==
       "arb" :> 42161 @@ "base" :> 8453 @@ "bera" :> 80094 @@ "eth" :> 1
    @@ "poly" :> 137 @@ "opt" :> 10 @@ "bsc" :> 56 @@ "avax" :> 43114
    @@ "gnosis" :> 100 @@ "sonic" :> 146 @@ "worldchain" :> 480
    @@ "scroll" :> 534352 @@ "lisk" :> 1135 @@ "sei" :> 1329 @@ "bob" :> 60808
    @@ "hype" :> 999 @@ "katana" :> 747474 @@ "monad" :> 143
    @@ "plasma" :> 9745 @@ "uni" :> 130 @@ "ape" :> 33139 @@ "megaeth" :> 4326

\* The chain ids of the Supported Chains table of the README.
README_CHAINS ==
    { 42161, 43114, 8453, 80094, 56, 60808, 1, 100, 999, 747474, 1135, 143, 10,
      9745, 137, 534352, 1329, 146, 130, 480, 33139 }

\* firstInputSlug ? SLUG_TO_CHAIN_ID[firstInputSlug] : undefined
SlugLookup(slug) ==
    IF slug \in DOMAIN SLUG_TO_CHAIN_ID THEN NumId(SLUG_TO_CHAIN_ID[slug]) ELSE Undefined

\* The sourceChainId handleGetQuote returns:
\* permit2Datas?.domain?.chainId || SLUG_TO_CHAIN_ID[firstInputSlug] || 42161
QuoteSourceChainId(domainChainId, slug) ==
    OrElse(OrElse(domainChainId, SlugLookup(slug)), NumId(DefaultChainId))

\* sourceChainId of the call: left out, a supported chain, an unsupported one,
\* or what handleGetQuote returned for a position on megaeth.
ParamChainIds ==
    { Undefined, NumId(1), NumId(UnsupportedId),
      QuoteSourceChainId(Undefined, "megaeth") }

ExecuteParams ==
    [ permit2SigningPayload : Permit2Payloads,
      bridgeSigningPayload  : BOOLEAN,
      permit2Signature      : { Absent, Empty, "0xP2caller" },
      userSignature         : { Absent, Empty, "0xUScaller" },
      approvals             : 0 .. MaxApprovals,
      sourceChainId         : ParamChainIds,
      broadcast             : BOOLEAN ]

\* process.env.WALLET_PRIVATE_KEY: unset (or empty), a key an account can be
\* derived from, or a non-empty string privateKeyToAccount throws on.
EnvKeys == { "unset", "valid", "malformed" }

\* Raw results of a successful estimateGas read.
RawEstimates == { 1, 100000 }

\* ------------------------------------------------------------------- state
VARIABLES
    envKey,                 \* process.env.WALLET_PRIVATE_KEY
    envRpc,                 \* process.env.RPC_URL_<id>, for one chain id
    params,                 \* the parsed arguments of the call
    pc,                     \* where the run is
    hasPrivateKey,          \* const hasPrivateKey
    hasExternalSignatures,  \* const hasExternalSignatures
    sourceChainId,          \* const sourceChainId (Undefined until computed)
    mode,                   \* let mode ("unset" until assigned)
    walletClient,           \* let walletClient is defined
    permit2Signature,       \* let permit2Signature
    userSignature,          \* let userSignature
    idx,                    \* position of the approvals loop, 1-based
    gasRead,                \* the estimateGas read of the current Promise.all
    feeRead,                \* the estimateFeesPerGas read of the current Promise.all
    lastTx,                 \* the arguments of the last sendTransaction call
    solveArgs,              \* the arguments of the client.solve call
    solveOutcome,           \* what the client.solve call did ("none" before it returns)
    approvalsSubmitted,     \* sendTransaction calls for approvals
    receiptsObserved,       \* approval receipts observed
    signCalls,              \* signTypedData calls
    solveCalls,             \* client.solve calls
    mainSubmitted,          \* sendTransaction calls for the main transaction
    rpcCalls,               \* RPC requests issued (reads, submissions, waits)
    failedApproval,         \* index of the approval whose submission or wait failed
    result,                 \* the ExecuteResult returned
    clientRpc,              \* the transport URL of each client created
    response,               \* what the server's tool-call handler returned
    norm,                   \* a normalizer and the values it has been applied to
    reg,                    \* a chain id and what the registry lookups returned for it
    entryKey,               \* process.env.WALLET_PRIVATE_KEY as read for hasPrivateKey
    accountKey,             \* the key privateKeyToAccount was called with
    clientChains,           \* the chain ids clients were created for
    upstream                \* the non-success response of the solve endpoint

vars == << envKey, envRpc, clientRpc, response, norm, reg, entryKey, accountKey,
           clientChains, upstream, params, pc, hasPrivateKey, hasExternalSignatures,
           sourceChainId, mode, walletClient, permit2Signature, userSignature,
           idx, gasRead, feeRead, lastTx, solveArgs, solveOutcome,
           approvalsSubmitted, receiptsObserved, signCalls, solveCalls,
           mainSubmitted, rpcCalls, failedApproval, result >>

Idle == [st |-> "idle", v |-> 0]
Pending == [st |-> "pending", v |-> 0]
Failed == [st |-> "failed", v |-> 0]
Ok(v) == [st |-> "ok", v |-> v]

NoTx == [kind |-> "none", hasGas |-> FALSE, gas |-> 0, rawGas |-> 0, hasFees |-> FALSE]
NoSolve == [called |-> FALSE, permit2Signature |-> Absent, userSignature |-> Absent]

\* An ExecuteResult; an optional field that is left out is Absent, << >> or FALSE.
NoResult ==
    [ success |-> FALSE, mode |-> "none", error |-> Absent, txHash |-> Absent,
      explorerUrl |-> << >>, hasSignatures |-> FALSE,
      permit2Signature |-> Absent, userSignature |-> Absent,
      hasTransaction |-> FALSE, chainId |-> Undefined ]

Failure(m, e) == [NoResult EXCEPT !.mode = m, !.error = e]

\* process.env.RPC_URL_1: unset, empty, or an endpoint.
EnvRpcs ==
    { [id |-> 1, value |-> v] : v \in { Absent, Empty, "https://rpc.override.example" } }

\* No client has been created.
NoUrl == << >>
NoClients == [wallet |-> NoUrl, approvalPublic |-> NoUrl, mainPublic |-> NoUrl]

\* The solve endpoint has returned no non-success response.
NoUpstream == [status |-> "", json |-> FALSE, message |-> Absent, error |-> Absent, text |-> ""]

\* The handler has not returned.
NoResponse == [returned |-> FALSE, isError |-> FALSE, body |-> "none"]

\* No normalizer is being applied, no registry lookup made.
NoNorm == [fn |-> "none", vals |-> << >>]
NoReg == [asked |-> FALSE, chainId |-> 0, rpcUrl |-> NoUrl, explorerUrl |-> NoUrl]

Init ==
    /\ envKey \in EnvKeys
    /\ envRpc \in EnvRpcs
    /\ clientRpc = NoClients
    /\ response = NoResponse
    /\ norm = NoNorm
    /\ reg = NoReg
    /\ entryKey = Absent
    /\ accountKey = Absent
    /\ clientChains = { }
    /\ upstream = NoUpstream
    /\ params \in ExecuteParams
    /\ pc = "start"
    /\ hasPrivateKey = FALSE
    /\ hasExternalSignatures = FALSE
    /\ sourceChainId = Undefined
    /\ mode = "unset"
    /\ walletClient = FALSE
    /\ permit2Signature = Absent
    /\ userSignature = Absent
    /\ idx = 0
    /\ gasRead = Idle
    /\ feeRead = Idle
    /\ lastTx = NoTx
    /\ solveArgs = NoSolve
    /\ solveOutcome = "none"
    /\ approvalsSubmitted = 0
    /\ receiptsObserved = 0
    /\ signCalls = 0
    /\ solveCalls = 0
    /\ mainSubmitted = 0
    /\ rpcCalls = 0
    /\ failedApproval = 0
    /\ result = NoResult

\* ------------------------------------------------- the decisions of the code
\* const hasPrivateKey = !!process.env.WALLET_PRIVATE_KEY
HasPrivateKey(k) == k # "unset"

\* Variant of HasExternalSignatures that looks at the permit2 slot only.
HasExternalSignatures_Permit2Only(p) == TruthyStr(p.permit2Signature)

\* const hasExternalSignatures = !!(params.permit2Signature || params.userSignature)
HasExternalSignatures(p) ==
    TruthyStr(p.permit2Signature) \/ TruthyStr(p.userSignature)

\* Variant of NoSigningMethod that refuses no run.
NoSigningMethod_Never(hasKey, hasExt, bc) == FALSE

\* if (!hasPrivateKey && !hasExternalSignatures && broadcast)
NoSigningMethod(hasKey, hasExt, bc) == ~hasKey /\ ~hasExt /\ bc

\* (permit2SigningPayload as any)?.domain?.chainId || params.sourceChainId || 42161
ResolveSourceChainId(p) ==
    OrElse(OrElse(p.permit2SigningPayload.domainChainId, p.sourceChainId),
           NumId(DefaultChainId))

\* Variant of ChainSupported that accepts every chain id.
ChainSupported_Any(id) == TRUE

\* const chain = CHAIN_MAP[sourceChainId]; if (!chain): the property looked up
\* is the value's string form, and no key of CHAIN_MAP is spelled in hexadecimal.
ChainSupported(id) == id.t = "number" /\ id.n \in CHAIN_MAP

\* Variant of SelectedMode whose first test leaves out !hasExternalSignatures.
SelectedMode_KeyFirst(hasKey, hasExt) ==
    IF hasKey THEN "self-contained"
    ELSE IF hasExt THEN "external-signatures"
    ELSE "prepare-only"

\* The branch of the if / else if / else that assigns mode.
SelectedMode(hasKey, hasExt) ==
    IF hasKey /\ ~hasExt THEN "self-contained"
    ELSE IF hasExt THEN "external-signatures"
    ELSE "prepare-only"

\* Variant of BroadcastRequiresKey that never asks for the key.
BroadcastRequiresKey_Never(bc, hasKey) == FALSE

\* if (broadcast && !hasPrivateKey), in the external-signatures branch
BroadcastRequiresKey(bc, hasKey) == bc /\ ~hasKey

\* if (approvals && approvals.length > 0)
HasApprovals(n) == n > 0

\* Variant of ReturnPrepared that always goes on to broadcast.
ReturnPrepared_Never(bc) == FALSE

\* if (!broadcast) return the prepared transaction
ReturnPrepared(bc) == ~bc

\* mode: hasExternalSignatures ? "external-signatures" : "self-contained"
CatchMode(hasExt) ==
    IF hasExt THEN "external-signatures" ELSE "self-contained"

\* Variant of ScaledGas that divides before it multiplies.
ScaledGas_DivideFirst(e) == (e \div 5) * 6

\* gas: (estimatedGas * 6n) / 5n, on bigints
ScaledGas(e) == (e * 6) \div 5

\* Variant of GasParams that keeps the gas limit when only the fee read failed.
GasParams_KeepGas(g, f) ==
    IF g.st = "ok"
    THEN [hasGas |-> TRUE, gas |-> ScaledGas(g.v), rawGas |-> g.v, hasFees |-> f.st = "ok"]
    ELSE [hasGas |-> FALSE, gas |-> 0, rawGas |-> 0, hasFees |-> FALSE]

\* Variant of GasParams that applies the fee parameters whenever the fee read
\* succeeded.
GasParams_FeesAlone(g, f) ==
    IF g.st = "ok" /\ f.st = "ok"
    THEN [hasGas |-> TRUE, gas |-> ScaledGas(g.v), rawGas |-> g.v, hasFees |-> TRUE]
    ELSE [hasGas |-> FALSE, gas |-> 0, rawGas |-> 0, hasFees |-> f.st = "ok"]

\* The object spread into sendTransaction: all three fields when both reads
\* of the Promise.all succeeded, none when it rejected.
GasParams(g, f) ==
    IF g.st = "ok" /\ f.st = "ok"
    THEN [hasGas |-> TRUE, gas |-> ScaledGas(g.v), rawGas |-> g.v, hasFees |-> TRUE]
    ELSE [hasGas |-> FALSE, gas |-> 0, rawGas |-> 0, hasFees |-> FALSE]

\* Variant of Settled that waits for two successful reads.
Settled_BothOk(g, f) == g.st = "ok" /\ f.st = "ok"

\* Promise.all has settled: it resolves when both reads have, and rejects as
\* soon as one of them does.
Settled(g, f) ==
    \/ g.st = "failed"
    \/ f.st = "failed"
    \/ g.st = "ok" /\ f.st = "ok"

\* process.env[name] of the variable RPC_URL_<chainId>: one such variable is
\* modelled, every other one is unset.
EnvLookup(chainId) ==
    IF chainId = envRpc.id THEN envRpc.value ELSE Absent

\* const publicRpcs, with its own keys.
publicRpcs ==
       1 :> "https://eth.llamarpc.com"
    @@ 10 :> "https://mainnet.optimism.io"
    @@ 56 :> "https://bsc-dataseed.binance.org"
    @@ 100 :> "https://rpc.gnosischain.com"
    @@ 137 :> "https://polygon-rpc.com"
    @@ 146 :> "https://rpc.soniclabs.com"
    @@ 480 :> "https://worldchain-mainnet.g.alchemy.com/public"
    @@ 534352 :> "https://rpc.scroll.io"
    @@ 1135 :> "https://rpc.api.lisk.com"
    @@ 1329 :> "https://evm-rpc.sei-apis.com"
    @@ 8453 :> "https://mainnet.base.org"
    @@ 42161 :> "https://arb1.arbitrum.io/rpc"
    @@ 43114 :> "https://api.avax.network/ext/bc/C/rpc"
    @@ 80094 :> "https://rpc.berachain.com"
    @@ 60808 :> "https://rpc.gobob.xyz"
    @@ 999 :> "https://rpc.hyperliquid.xyz"
    @@ 747474 :> "https://rpc.katana.network"
    @@ 143 :> "https://rpc.monad.xyz"
    @@ 9745 :> "https://rpc.plasma.network"
    @@ 130 :> "https://rpc.unichain.org"
    @@ 33139 :> "https://rpc.apechain.com"

\* Variant of getRpcUrl that looks at the table before the environment.
getRpcUrl_TableFirst(chainId) ==
    IF chainId \in DOMAIN publicRpcs THEN << publicRpcs[chainId] >>
    ELSE IF TruthyStr(EnvLookup(chainId)) THEN << EnvLookup(chainId) >>
    ELSE << "https://rpc.ankr.com/", chainId >>

\* getRpcUrl(chainId: number).  A URL is the sequence of the pieces of its
\* template: `https://rpc.ankr.com/${chainId}` has two, any other URL one.
getRpcUrl(chainId) ==
    IF TruthyStr(EnvLookup(chainId)) THEN << EnvLookup(chainId) >>
    ELSE IF chainId \in DOMAIN publicRpcs THEN << publicRpcs[chainId] >>
    ELSE << "https://rpc.ankr.com/", chainId >>

\* const explorers, with its own keys.
explorers ==
       1 :> "https://etherscan.io"
    @@ 10 :> "https://optimistic.etherscan.io"
    @@ 56 :> "https://bscscan.com"
    @@ 100 :> "https://gnosisscan.io"
    @@ 137 :> "https://polygonscan.com"
    @@ 146 :> "https://sonicscan.org"
    @@ 480 :> "https://worldscan.org"
    @@ 534352 :> "https://scrollscan.com"
    @@ 1135 :> "https://blockscout.lisk.com"
    @@ 1329 :> "https://seitrace.com"
    @@ 8453 :> "https://basescan.org"
    @@ 42161 :> "https://arbiscan.io"
    @@ 43114 :> "https://snowtrace.io"
    @@ 80094 :> "https://berascan.com"
    @@ 60808 :> "https://explorer.gobob.xyz"
    @@ 999 :> "https://explorer.hyperliquid.xyz"
    @@ 747474 :> "https://explorer.katana.network"
    @@ 143 :> "https://explorer.monad.xyz"
    @@ 9745 :> "https://explorer.plasma.network"
    @@ 130 :> "https://explorer.unichain.org"
    @@ 33139 :> "https://apescan.io"

\* `${base}/tx/${txHash}`
getExplorerUrl(chainId, txHash) ==
    LET base == IF chainId.t = "number" /\ chainId.n \in DOMAIN explorers
                THEN explorers[chainId.n]
                ELSE "https://blockscan.com"
    IN << base, "/tx/", txHash >>

\* Variant of Throw in which the exception leaves handleExecute.
Throw_Escapes(e) ==
    /\ pc' = "thrown"
    /\ UNCHANGED result

\* Variant of Throw whose error text is the configured key.
Throw_EchoKey(e) ==
    /\ pc' = "done"
    /\ result' = Failure(CatchMode(hasExternalSignatures), envKey)

\* The return of the catch block.
Throw(e) ==
    /\ pc' = "done"
    /\ result' = Failure(CatchMode(hasExternalSignatures), e)

\* Variant of Success that reports the caller's signature parameters.
Success_ParamSignatures(hash) ==
    [ success |-> TRUE, mode |-> mode, error |-> Absent, txHash |-> hash,
      explorerUrl |-> IF hash = Absent THEN << >>
                      ELSE getExplorerUrl(sourceChainId, hash),
      hasSignatures |-> TRUE,
      permit2Signature |-> params.permit2Signature,
      userSignature |-> params.userSignature,
      hasTransaction |-> TRUE, chainId |-> sourceChainId ]

\* signatures and transaction of a successful return.
Success(hash) ==
    [ success |-> TRUE, mode |-> mode, error |-> Absent, txHash |-> hash,
      explorerUrl |-> IF hash = Absent THEN << >>
                      ELSE getExplorerUrl(sourceChainId, hash),
      hasSignatures |-> TRUE,
      permit2Signature |-> permit2Signature, userSignature |-> userSignature,
      hasTransaction |-> TRUE, chainId |-> sourceChainId ]

\* ------------------------------------------------------------------ actions
\* The tool-call handler of the server: executeSchema.parse(args) throws on
\* arguments that do not fit the schema, and the handler's catch returns the
\* error as a response; handleExecute is not entered.
ParseRejects ==
    /\ pc = "start"
    /\ pc' = "rejected"
    /\ response' = [returned |-> TRUE, isError |-> TRUE, body |-> "error"]
    /\ UNCHANGED << envKey, envRpc, entryKey, accountKey, clientChains, upstream, clientRpc, norm, reg, params, hasPrivateKey,
                    hasExternalSignatures, sourceChainId, mode, walletClient,
                    permit2Signature, userSignature, idx, gasRead, feeRead,
                    lastTx, solveArgs, solveOutcome, approvalsSubmitted,
                    receiptsObserved, signCalls, solveCalls, mainSubmitted,
                    rpcCalls, failedApproval, result >>

\* The tool-call handler of the server after handleExecute has returned: the
\* result is formatted and returned with isError = !result.success.
\* formatExecuteResponse throws on a transaction whose data is no string
\* (data.slice), which the handler's catch turns into an error response.
ServerResponds ==
    /\ pc = "done"
    /\ ~response.returned
    /\ \E dataIsString \in BOOLEAN :
         response' =
            IF result.hasTransaction /\ ~dataIsString
            THEN [returned |-> TRUE, isError |-> TRUE, body |-> "error"]
            ELSE [returned |-> TRUE, isError |-> ~result.success, body |-> "result"]
    /\ UNCHANGED << envKey, envRpc, entryKey, accountKey, clientChains, upstream, clientRpc, norm, reg, params, pc, hasPrivateKey,
                    hasExternalSignatures, sourceChainId, mode, walletClient,
                    permit2Signature, userSignature, idx, gasRead, feeRead,
                    lastTx, solveArgs, solveOutcome, approvalsSubmitted,
                    receiptsObserved, signCalls, solveCalls, mainSubmitted,
                    rpcCalls, failedApproval, result >>

\* Entry: the two flags, and the rejection when nothing can sign.
SelectMode ==
    /\ pc = "start"
    /\ entryKey' = envKey
    /\ hasPrivateKey' = HasPrivateKey(entryKey')
    /\ hasExternalSignatures' = HasExternalSignatures(params)
    /\ IF NoSigningMethod(hasPrivateKey', hasExternalSignatures', params.broadcast)
       THEN /\ pc' = "done"
            /\ result' = Failure("prepare-only", "NoSigningMethod")
       ELSE /\ pc' = "resolve"
            /\ UNCHANGED result
    /\ UNCHANGED << envKey, envRpc, accountKey, clientChains, upstream, response, norm, reg, clientRpc, params, sourceChainId, mode, walletClient,
                    permit2Signature, userSignature, idx, gasRead, feeRead,
                    lastTx, solveArgs, solveOutcome, approvalsSubmitted, receiptsObserved,
                    signCalls, solveCalls, mainSubmitted, rpcCalls,
                    failedApproval >>

\* The source chain id and its lookup in CHAIN_MAP.
ResolveChain ==
    /\ pc = "resolve"
    /\ sourceChainId' = ResolveSourceChainId(params)
    /\ IF ~ChainSupported(sourceChainId')
       THEN /\ pc' = "done"
            /\ result' = Failure("prepare-only", "UnsupportedChain")
       ELSE /\ pc' = "enter"
            /\ UNCHANGED result
    /\ UNCHANGED << envKey, envRpc, entryKey, accountKey, clientChains, upstream, response, norm, reg, clientRpc, params, hasPrivateKey, hasExternalSignatures, mode,
                    walletClient, permit2Signature, userSignature, idx, gasRead,
                    feeRead, lastTx, solveArgs, solveOutcome, approvalsSubmitted,
                    receiptsObserved, signCalls, solveCalls, mainSubmitted,
                    rpcCalls, failedApproval >>

\* privateKeyToAccount(process.env.WALLET_PRIVATE_KEY) is reached: always in
\* self-contained mode, and in external-signatures mode when a key is
\* configured and the run was not refused for asking to broadcast without one.
DerivesAccount(m, broadcast, hasKey) ==
    \/ m = "self-contained"
    \/ m = "external-signatures" /\ ~BroadcastRequiresKey(broadcast, hasKey) /\ hasKey

\* Entry of the try block: the two signature slots, the mode, and the wallet
\* client of the branches that derive an account from the key.
EnterMode ==
    /\ pc = "enter"
    /\ permit2Signature' = params.permit2Signature
    /\ userSignature' = params.userSignature
    /\ mode' = SelectedMode(hasPrivateKey, hasExternalSignatures)
    /\ CASE mode' = "self-contained" ->
              IF envKey = "malformed"
              THEN Throw("KeyDerivationFailed") /\ UNCHANGED << walletClient, clientRpc, idx >>
              ELSE /\ walletClient' = TRUE
                   /\ clientRpc' =
                        [clientRpc EXCEPT
                           !.wallet = getRpcUrl(sourceChainId.n),
                           !.approvalPublic =
                               IF HasApprovals(params.approvals)
                               THEN getRpcUrl(sourceChainId.n) ELSE @]
                   /\ IF HasApprovals(params.approvals)
                      THEN pc' = "approval" /\ idx' = 1
                      ELSE pc' = "signPermit2" /\ UNCHANGED idx
                   /\ UNCHANGED result
         [] mode' = "external-signatures" ->
              IF BroadcastRequiresKey(params.broadcast, hasPrivateKey)
              THEN /\ pc' = "done"
                   /\ result' = Failure("external-signatures", "BroadcastRequiresKey")
                   /\ UNCHANGED << walletClient, clientRpc, idx >>
              ELSE IF hasPrivateKey /\ envKey = "malformed"
              THEN Throw("KeyDerivationFailed") /\ UNCHANGED << walletClient, clientRpc, idx >>
              ELSE /\ walletClient' = hasPrivateKey
                   /\ clientRpc' =
                        [clientRpc EXCEPT
                           !.wallet = IF hasPrivateKey
                                      THEN getRpcUrl(sourceChainId.n) ELSE @]
                   /\ pc' = "solve"
                   /\ UNCHANGED << result, idx >>
         [] OTHER ->
              /\ pc' = "solve"
              /\ UNCHANGED << walletClient, clientRpc, idx, result >>
    /\ accountKey' = IF DerivesAccount(mode', params.broadcast, hasPrivateKey)
                     THEN envKey ELSE accountKey
    /\ clientChains' = IF walletClient'
                       THEN clientChains \cup { sourceChainId.n } ELSE clientChains
    /\ UNCHANGED << envKey, envRpc, entryKey, upstream, response, norm, reg, params, hasPrivateKey, hasExternalSignatures,
                    sourceChainId, gasRead, feeRead, lastTx, solveArgs, solveOutcome,
                    approvalsSubmitted, receiptsObserved, signCalls, solveCalls,
                    mainSubmitted, rpcCalls, failedApproval >>

\* One turn of the approvals loop up to its Promise.all: the approval is
\* converted (fixBigInts, BigInt(value), which throw on a malformed entry) and
\* the two reads are issued.
ApprovalStart ==
    /\ pc = "approval"
    /\ \E wellFormed \in BOOLEAN :
         IF wellFormed
         THEN /\ gasRead' = Pending
              /\ feeRead' = Pending
              /\ rpcCalls' = rpcCalls + 2
              /\ pc' = "approvalEstimate"
              /\ UNCHANGED result
         ELSE /\ Throw("ApprovalMalformed")
              /\ UNCHANGED << gasRead, feeRead, rpcCalls >>
    /\ UNCHANGED << envKey, envRpc, entryKey, accountKey, clientChains, upstream, response, norm, reg, clientRpc, params, hasPrivateKey, hasExternalSignatures,
                    sourceChainId, mode, walletClient, permit2Signature,
                    userSignature, idx, lastTx, solveArgs, solveOutcome, approvalsSubmitted,
                    receiptsObserved, signCalls, solveCalls, mainSubmitted,
                    failedApproval >>

\* The estimateGas read completes, with an estimate or an error.
GasReadReturns ==
    /\ pc \in { "approvalEstimate", "mainEstimate" }
    /\ gasRead = Pending
    /\ \E r \in { Failed } \cup { Ok(e) : e \in RawEstimates } : gasRead' = r
    /\ UNCHANGED << envKey, envRpc, entryKey, accountKey, clientChains, upstream, response, norm, reg, clientRpc, params, pc, hasPrivateKey, hasExternalSignatures,
                    sourceChainId, mode, walletClient, permit2Signature,
                    userSignature, idx, feeRead, lastTx, solveArgs, solveOutcome,
                    approvalsSubmitted, receiptsObserved, signCalls, solveCalls,
                    mainSubmitted, rpcCalls, failedApproval, result >>

\* The estimateFeesPerGas read completes, with fee data or an error.
FeeReadReturns ==
    /\ pc \in { "approvalEstimate", "mainEstimate" }
    /\ feeRead = Pending
    /\ \E r \in { Failed, Ok(0) } : feeRead' = r
    /\ UNCHANGED << envKey, envRpc, entryKey, accountKey, clientChains, upstream, response, norm, reg, clientRpc, params, pc, hasPrivateKey, hasExternalSignatures,
                    sourceChainId, mode, walletClient, permit2Signature,
                    userSignature, idx, gasRead, lastTx, solveArgs, solveOutcome,
                    approvalsSubmitted, receiptsObserved, signCalls, solveCalls,
                    mainSubmitted, rpcCalls, failedApproval, result >>

\* The Promise.all of an approval has settled: the gas parameters are built
\* (or left empty by the catch) and the approval is submitted.
ApprovalSubmit ==
    /\ pc = "approvalEstimate"
    /\ Settled(gasRead, feeRead)
    /\ lastTx' = [kind |-> "approval"] @@ GasParams(gasRead, feeRead)
    /\ approvalsSubmitted' = approvalsSubmitted + 1
    /\ rpcCalls' = rpcCalls + 1
    /\ gasRead' = Idle
    /\ feeRead' = Idle
    /\ pc' = "approvalSend"
    /\ UNCHANGED << envKey, envRpc, entryKey, accountKey, clientChains, upstream, response, norm, reg, clientRpc, params, hasPrivateKey, hasExternalSignatures,
                    sourceChainId, mode, walletClient, permit2Signature,
                    userSignature, idx, solveArgs, solveOutcome, receiptsObserved, signCalls,
                    solveCalls, mainSubmitted, failedApproval, result >>

\* The next turn of the for-of loop, or the statement after it.
NextApproval ==
    IF idx < params.approvals
    THEN pc' = "approval" /\ idx' = idx + 1
    ELSE pc' = "signPermit2" /\ UNCHANGED idx

\* Variant of ApprovalSendReturns that does not wait for the receipt.
ApprovalSendReturns_NoWait ==
    /\ pc = "approvalSend"
    /\ \E ok \in BOOLEAN :
         IF ok
         THEN /\ NextApproval
              /\ UNCHANGED << rpcCalls, failedApproval, result >>
         ELSE /\ Throw("ApprovalSubmissionFailed")
              /\ failedApproval' = idx
              /\ UNCHANGED << idx, rpcCalls >>
    /\ UNCHANGED << envKey, envRpc, entryKey, accountKey, clientChains, upstream, response, norm, reg, clientRpc, params, hasPrivateKey, hasExternalSignatures,
                    sourceChainId, mode, walletClient, permit2Signature,
                    userSignature, gasRead, feeRead, lastTx, solveArgs, solveOutcome,
                    approvalsSubmitted, receiptsObserved, signCalls, solveCalls,
                    mainSubmitted >>

\* sendTransaction of an approval returns a hash, and the receipt wait starts,
\* or it throws.
ApprovalSendReturns ==
    /\ pc = "approvalSend"
    /\ \E ok \in BOOLEAN :
         IF ok
         THEN /\ pc' = "approvalWait"
              /\ rpcCalls' = rpcCalls + 1
              /\ UNCHANGED << idx, failedApproval, result >>
         ELSE /\ Throw("ApprovalSubmissionFailed")
              /\ failedApproval' = idx
              /\ UNCHANGED << idx, rpcCalls >>
    /\ UNCHANGED << envKey, envRpc, entryKey, accountKey, clientChains, upstream, response, norm, reg, clientRpc, params, hasPrivateKey, hasExternalSignatures,
                    sourceChainId, mode, walletClient, permit2Signature,
                    userSignature, gasRead, feeRead, lastTx, solveArgs, solveOutcome,
                    approvalsSubmitted, receiptsObserved, signCalls, solveCalls,
                    mainSubmitted >>

\* Variant of ApprovalReceiptReturns that swallows a failed wait and goes on.
ApprovalReceiptReturns_Swallow ==
    /\ pc = "approvalWait"
    /\ \E ok \in BOOLEAN :
         /\ receiptsObserved' = IF ok THEN receiptsObserved + 1 ELSE receiptsObserved
         /\ failedApproval' = IF ok THEN failedApproval ELSE idx
         /\ NextApproval
         /\ UNCHANGED result
    /\ UNCHANGED << envKey, envRpc, entryKey, accountKey, clientChains, upstream, response, norm, reg, clientRpc, params, hasPrivateKey, hasExternalSignatures,
                    sourceChainId, mode, walletClient, permit2Signature,
                    userSignature, gasRead, feeRead, lastTx, solveArgs, solveOutcome,
                    approvalsSubmitted, signCalls, solveCalls, mainSubmitted,
                    rpcCalls >>

\* waitForTransactionReceipt returns the receipt or throws.
ApprovalReceiptReturns ==
    /\ pc = "approvalWait"
    /\ \E ok \in BOOLEAN :
         IF ok
         THEN /\ receiptsObserved' = receiptsObserved + 1
              /\ NextApproval
              /\ UNCHANGED << failedApproval, result >>
         ELSE /\ Throw("ApprovalConfirmationFailed")
              /\ failedApproval' = idx
              /\ UNCHANGED << receiptsObserved, idx >>
    /\ UNCHANGED << envKey, envRpc, entryKey, accountKey, clientChains, upstream, response, norm, reg, clientRpc, params, hasPrivateKey, hasExternalSignatures,
                    sourceChainId, mode, walletClient, permit2Signature,
                    userSignature, gasRead, feeRead, lastTx, solveArgs, solveOutcome,
                    approvalsSubmitted, signCalls, solveCalls, mainSubmitted,
                    rpcCalls >>

\* What a signing step can do: the payload does not convert (fixBigInts
\* throws before the call), signTypedData throws, or it returns a signature.
SignOutcomes == { "malformed", "rejected", "signed" }

\* if (permit2SigningPayload) permit2Signature = await signTypedData(...)
SignPermit2 ==
    /\ pc = "signPermit2"
    /\ IF ~params.permit2SigningPayload.present
       THEN /\ pc' = "signBridge"
            /\ UNCHANGED << permit2Signature, signCalls, result >>
       ELSE \E o \in SignOutcomes :
              /\ signCalls' = IF o = "malformed" THEN signCalls ELSE signCalls + 1
              /\ IF o = "signed"
                 THEN /\ permit2Signature' = "0xP2signed"
                      /\ pc' = "signBridge"
                      /\ UNCHANGED result
                 ELSE /\ Throw("SigningFailed")
                      /\ UNCHANGED permit2Signature
    /\ UNCHANGED << envKey, envRpc, entryKey, accountKey, clientChains, upstream, response, norm, reg, clientRpc, params, hasPrivateKey, hasExternalSignatures,
                    sourceChainId, mode, walletClient, userSignature, idx,
                    gasRead, feeRead, lastTx, solveArgs, solveOutcome, approvalsSubmitted,
                    receiptsObserved, solveCalls, mainSubmitted, rpcCalls,
                    failedApproval >>

\* if (bridgeSigningPayload) userSignature = await signTypedData(...)
SignBridge ==
    /\ pc = "signBridge"
    /\ IF ~params.bridgeSigningPayload
       THEN /\ pc' = "solve"
            /\ UNCHANGED << userSignature, signCalls, result >>
       ELSE \E o \in SignOutcomes :
              /\ signCalls' = IF o = "malformed" THEN signCalls ELSE signCalls + 1
              /\ IF o = "signed"
                 THEN /\ userSignature' = "0xUSsigned"
                      /\ pc' = "solve"
                      /\ UNCHANGED result
                 ELSE /\ Throw("SigningFailed")
                      /\ UNCHANGED userSignature
    /\ UNCHANGED << envKey, envRpc, entryKey, accountKey, clientChains, upstream, response, norm, reg, clientRpc, params, hasPrivateKey, hasExternalSignatures,
                    sourceChainId, mode, walletClient, permit2Signature, idx,
                    gasRead, feeRead, lastTx, solveArgs, solveOutcome, approvalsSubmitted,
                    receiptsObserved, solveCalls, mainSubmitted, rpcCalls,
                    failedApproval >>

\* Variant of CallSolve that passes the caller's signature parameters.
CallSolve_ParamSignatures ==
    /\ pc = "solve"
    /\ solveArgs' = [called |-> TRUE, permit2Signature |-> params.permit2Signature,
                     userSignature |-> params.userSignature]
    /\ solveCalls' = solveCalls + 1
    /\ pc' = "solveWait"
    /\ UNCHANGED << solveOutcome, envKey, envRpc, entryKey, accountKey, clientChains, upstream, response, norm, reg, clientRpc, params, hasPrivateKey, hasExternalSignatures,
                    sourceChainId, mode, walletClient, permit2Signature,
                    userSignature, idx, gasRead, feeRead, lastTx,
                    approvalsSubmitted, receiptsObserved, signCalls,
                    mainSubmitted, rpcCalls, failedApproval, result >>

\* client.solve({ quoteId, permit2Signature, userSignature }) is called.
CallSolve ==
    /\ pc = "solve"
    /\ solveArgs' = [called |-> TRUE, permit2Signature |-> permit2Signature,
                     userSignature |-> userSignature]
    /\ solveCalls' = solveCalls + 1
    /\ pc' = "solveWait"
    /\ UNCHANGED << solveOutcome, envKey, envRpc, entryKey, accountKey, clientChains, upstream, response, norm, reg, clientRpc, params, hasPrivateKey, hasExternalSignatures,
                    sourceChainId, mode, walletClient, permit2Signature,
                    userSignature, idx, gasRead, feeRead, lastTx,
                    approvalsSubmitted, receiptsObserved, signCalls,
                    mainSubmitted, rpcCalls, failedApproval, result >>

\* Non-success responses of the solve endpoint: the status, and a body that
\* is JSON with a message, JSON with an error, or plain text.
UpstreamErrors ==
    { [status |-> "410", json |-> TRUE, message |-> "Quote expired", error |-> Absent,
       text |-> "{\"message\":\"Quote expired\"}"],
      [status |-> "500", json |-> TRUE, message |-> Absent, error |-> "Internal Server Error",
       text |-> "{\"error\":\"Internal Server Error\"}"],
      [status |-> "502", json |-> FALSE, message |-> Absent, error |-> Absent,
       text |-> "Bad Gateway"] }

\* errorJson.message || errorJson.error || errorText, and errorText when the
\* body does not parse.
ErrorMessage(r) ==
    IF ~r.json THEN r.text
    ELSE IF TruthyStr(r.message) THEN r.message
    ELSE IF TruthyStr(r.error) THEN r.error
    ELSE r.text

\* The template `Haiku API error (${status}): ${errorMessage}` on the statuses
\* and messages above.
ApiErrorText ==
    << "410", "Quote expired" >> :> "Haiku API error (410): Quote expired" @@
    << "500", "Internal Server Error" >> :> "Haiku API error (500): Internal Server Error" @@
    << "502", "Bad Gateway" >> :> "Haiku API error (502): Bad Gateway"

\* Variant of HaikuApiError that reports a fixed text.
HaikuApiError_Generic(r) == "Haiku API error"

\* throw new Error(`Haiku API error (${response.status}): ${errorMessage}`)
HaikuApiError(r) == ApiErrorText[<< r.status, ErrorMessage(r) >>]

\* What the solve call can do: reject (a non-success response), return a
\* response that does not convert (fixBigInts, BigInt(value)), or a transaction.
SolveOutcomes == { "httpError", "malformed", "transaction" }

\* Variant of SolveReturns that goes back to the bridge signature once.
SolveReturns_ThenSign ==
    /\ pc = "solveWait"
    /\ solveOutcome' = "transaction"
    /\ pc' = IF solveCalls < 2 THEN "signBridge" ELSE "done"
    /\ UNCHANGED << envKey, envRpc, entryKey, accountKey, clientChains, upstream, response, norm, reg, clientRpc, params, hasPrivateKey, hasExternalSignatures,
                    sourceChainId, mode, walletClient, permit2Signature,
                    userSignature, idx, gasRead, feeRead, lastTx, solveArgs,
                    approvalsSubmitted, receiptsObserved, signCalls, solveCalls,
                    mainSubmitted, rpcCalls, failedApproval, result >>

\* The solve call returns.  Without broadcast the prepared transaction is the
\* result; with it the two reads for the main transaction are issued.  With no
\* wallet client the reads are never issued (the public client is created,
\* then walletClient.account throws inside the inner try, which swallows it)
\* and walletClient.sendTransaction throws.
SolveReturns ==
    /\ pc = "solveWait"
    /\ \E o \in SolveOutcomes :
         /\ solveOutcome' = o
         /\ IF o = "httpError"
            THEN \E r \in UpstreamErrors :
                   /\ upstream' = r
                   /\ Throw(HaikuApiError(r))
                   /\ UNCHANGED << gasRead, feeRead, rpcCalls, clientRpc >>
            ELSE IF o = "malformed"
            THEN /\ Throw("SolveMalformed")
                 /\ UNCHANGED << gasRead, feeRead, rpcCalls, clientRpc, upstream >>
            ELSE IF ReturnPrepared(params.broadcast)
            THEN /\ pc' = "done"
                 /\ result' = Success(Absent)
                 /\ UNCHANGED << gasRead, feeRead, rpcCalls, clientRpc, upstream >>
            ELSE IF ~walletClient
            THEN /\ Throw("WalletClientUndefined")
                 /\ clientRpc' = [clientRpc EXCEPT !.mainPublic = getRpcUrl(sourceChainId.n)]
                 /\ UNCHANGED << gasRead, feeRead, rpcCalls, upstream >>
            ELSE /\ UNCHANGED upstream
                 /\ clientRpc' = [clientRpc EXCEPT !.mainPublic = getRpcUrl(sourceChainId.n)]
                 /\ gasRead' = Pending
                 /\ feeRead' = Pending
                 /\ rpcCalls' = rpcCalls + 2
                 /\ pc' = "mainEstimate"
                 /\ UNCHANGED result
    /\ clientChains' = IF clientRpc'.mainPublic # clientRpc.mainPublic
                       THEN clientChains \cup { sourceChainId.n } ELSE clientChains
    /\ UNCHANGED << envKey, envRpc, entryKey, accountKey, response, norm, reg, params, hasPrivateKey, hasExternalSignatures,
                    sourceChainId, mode, walletClient, permit2Signature,
                    userSignature, idx, lastTx, solveArgs, approvalsSubmitted,
                    receiptsObserved, signCalls, solveCalls, mainSubmitted,
                    failedApproval >>

\* The Promise.all of the main transaction has settled: the gas parameters are
\* built (or left empty by the catch) and the transaction is submitted.
MainSubmit ==
    /\ pc = "mainEstimate"
    /\ Settled(gasRead, feeRead)
    /\ lastTx' = [kind |-> "main"] @@ GasParams(gasRead, feeRead)
    /\ mainSubmitted' = mainSubmitted + 1
    /\ rpcCalls' = rpcCalls + 1
    /\ gasRead' = Idle
    /\ feeRead' = Idle
    /\ pc' = "mainSend"
    /\ UNCHANGED << envKey, envRpc, entryKey, accountKey, clientChains, upstream, response, norm, reg, clientRpc, params, hasPrivateKey, hasExternalSignatures,
                    sourceChainId, mode, walletClient, permit2Signature,
                    userSignature, idx, solveArgs, solveOutcome, approvalsSubmitted,
                    receiptsObserved, signCalls, solveCalls, failedApproval,
                    result >>

\* Variant of MainSendReturns that submits the transaction again after a
\* first failure.
MainSendReturns_Retry ==
    /\ pc = "mainSend"
    /\ \E ok \in BOOLEAN :
         IF ok
         THEN /\ pc' = "done"
              /\ result' = Success("0xMainHash")
              /\ UNCHANGED mainSubmitted
         ELSE IF mainSubmitted < 2
         THEN /\ pc' = "mainSend"
              /\ mainSubmitted' = mainSubmitted + 1
              /\ UNCHANGED result
         ELSE Throw("BroadcastFailed") /\ UNCHANGED mainSubmitted
    /\ UNCHANGED << envKey, envRpc, entryKey, accountKey, clientChains, upstream, response, norm, reg, clientRpc, params, hasPrivateKey, hasExternalSignatures,
                    sourceChainId, mode, walletClient, permit2Signature,
                    userSignature, idx, gasRead, feeRead, lastTx, solveArgs, solveOutcome,
                    approvalsSubmitted, receiptsObserved, signCalls, solveCalls,
                    rpcCalls, failedApproval >>

\* sendTransaction of the main transaction returns the hash or throws.
MainSendReturns ==
    /\ pc = "mainSend"
    /\ \E ok \in BOOLEAN :
         IF ok
         THEN /\ pc' = "done"
              /\ result' = Success("0xMainHash")
         ELSE Throw("BroadcastFailed")
    /\ UNCHANGED << envKey, envRpc, entryKey, accountKey, clientChains, upstream, response, norm, reg, clientRpc, params, hasPrivateKey, hasExternalSignatures,
                    sourceChainId, mode, walletClient, permit2Signature,
                    userSignature, idx, gasRead, feeRead, lastTx, solveArgs, solveOutcome,
                    approvalsSubmitted, receiptsObserved, signCalls, solveCalls,
                    mainSubmitted, rpcCalls, failedApproval >>

\* The locals of handleExecute, its collaborators' calls and the server's response.
handlerLocals ==
    << clientRpc, response, entryKey, accountKey, clientChains, upstream, params, pc,
       hasPrivateKey, hasExternalSignatures, sourceChainId, mode, walletClient,
       permit2Signature, userSignature, idx, gasRead, feeRead, lastTx, solveArgs,
       solveOutcome, approvalsSubmitted, receiptsObserved, signCalls, solveCalls,
       mainSubmitted, rpcCalls, failedApproval, result >>

Next ==
    \/ ParseRejects
    \/ SelectMode
    \/ ResolveChain
    \/ EnterMode
    \/ ApprovalStart
    \/ GasReadReturns
    \/ FeeReadReturns
    \/ ApprovalSubmit
    \/ ApprovalSendReturns
    \/ ApprovalReceiptReturns
    \/ SignPermit2
    \/ SignBridge
    \/ CallSolve
    \/ SolveReturns
    \/ MainSubmit
    \/ MainSendReturns
    \/ ServerResponds

Spec == Init /\ [][Next]_vars

\* Every suspension point eventually returns or fails, and the handler's own
\* synchronous steps run: whenever some step is possible, one is taken.
FairSpec == Spec /\ WF_vars(Next)

\* ------------------------------------------- a process environment that changes
\* process.env is shared, mutable state of the process: while a run is
\* suspended at an await, other code of the process may assign to it.
Suspended ==
    pc \in { "approvalEstimate", "approvalSend", "approvalWait", "solveWait",
             "mainEstimate", "mainSend" }

\* Runs on chain 1, the chain of the modelled RPC_URL variable, with at most
\* one approval.
EnvInit ==
    /\ Init
    /\ params.approvals <= 1
    /\ params.sourceChainId = NumId(1)
    /\ params.permit2SigningPayload.domainChainId = Undefined

\* RPC_URL_1 is assigned, or deleted, while the run is suspended.
EnvRpcChanges ==
    /\ Suspended
    /\ envRpc' \in EnvRpcs \ { envRpc }
    /\ UNCHANGED << envKey, handlerLocals, norm, reg >>

\* WALLET_PRIVATE_KEY is assigned, or deleted, while the run is suspended.
EnvKeyChanges ==
    /\ Suspended
    /\ envKey' \in EnvKeys \ { envKey }
    /\ UNCHANGED << envRpc, handlerLocals, norm, reg >>

EnvNext ==
    \/ Next
    \/ EnvRpcChanges
    \/ EnvKeyChanges

EnvSpec == EnvInit /\ [][EnvNext]_vars

\* ------------------------------------------------------------ the normalizers
\* A JSON-like value is a node: its kind k, the text s of a scalar, the key
\* under which it sits in its parent mapping ("" in a sequence or at the
\* root), and its children in order.  A bigint is a scalar of its own kind;
\* "error" stands for a call that threw.
Str(s) == [k |-> "string", s |-> s, key |-> "", kids |-> << >>]
Num(s) == [k |-> "number", s |-> s, key |-> "", kids |-> << >>]
Null == [k |-> "null", s |-> "", key |-> "", kids |-> << >>]
BigIntValue(s) == [k |-> "bigint", s |-> s, key |-> "", kids |-> << >>]
Arr(kids) == [k |-> "array", s |-> "", key |-> "", kids |-> kids]
Obj(kids) == [k |-> "object", s |-> "", key |-> "", kids |-> kids]
Thrown == [k |-> "error", s |-> "", key |-> "", kids |-> << >>]

\* The value v stored under the key name (result[key] = v).
At(v, name) == [v EXCEPT !.key = name]

\* typeof obj === "object", for an obj that is not null
TypeofObject(obj) == obj.k \in { "array", "object" }

\* obj.hex !== undefined, 'hex' in obj
HasProp(obj, name) == \E i \in 1 .. Len(obj.kids) : obj.kids[i].key = name

\* obj.hex
Prop(obj, name) ==
    obj.kids[CHOOSE i \in 1 .. Len(obj.kids) : obj.kids[i].key = name]

\* String(v) as BigInt applies it to a sequence or a mapping: the elements of
\* a sequence joined by commas (null gives the empty string), "[object
\* Object]" for a mapping.
RECURSIVE JsString(_)
JsString(v) ==
    CASE v.k \in { "string", "number", "bigint" } -> v.s
      [] v.k = "null" -> ""
      [] v.k = "array" ->
            IF Len(v.kids) = 0 THEN ""
            ELSE IF Len(v.kids) = 1 THEN JsString(v.kids[1])
            ELSE "<joined with commas>"
      [] OTHER -> "[object Object]"

\* The integer a string spells, in decimal digits, or a SyntaxError.
ParseBigInt(str) ==
    CASE str = "" -> BigIntValue("0")
      [] str = "0x1" -> BigIntValue("1")
      [] str = "5" -> BigIntValue("5")
      [] OTHER -> Thrown

\* BigInt(v): a number or a string converts, null throws a TypeError, a
\* sequence or a mapping converts through its string form.
BigInt(v) ==
    CASE v.k = "number" -> BigIntValue(v.s)
      [] v.k = "string" -> ParseBigInt(v.s)
      [] v.k = "bigint" -> At(v, "")
      [] v.k = "null" -> Thrown
      [] OTHER -> ParseBigInt(JsString(v))

RECURSIVE normalizeBigInts(_)
RECURSIVE sanitizeBigInts(_)
RECURSIVE fixBigInts(_)

\* Variant of normalizeBigInts that also rewrites a hexadecimal string in
\* decimal digits, but not the string it has just unwrapped.
normalizeBigInts_Decimal(obj) ==
    IF obj.k = "null" THEN obj
    ELSE IF TypeofObject(obj) /\ HasProp(obj, "hex")
    THEN At(Prop(obj, "hex"), obj.key)
    ELSE IF TypeofObject(obj)
    THEN [obj EXCEPT !.kids = [i \in 1 .. Len(obj.kids) |-> normalizeBigInts(obj.kids[i])]]
    ELSE IF obj.k = "string" /\ obj.s = "0x1" THEN [obj EXCEPT !.s = "1"]
    ELSE obj

\* Variant of normalizeBigInts that returns a sequence as it is.
normalizeBigInts_SkipArrays(obj) ==
    IF obj.k = "null" THEN obj
    ELSE IF TypeofObject(obj) /\ HasProp(obj, "hex")
    THEN At(Prop(obj, "hex"), obj.key)
    ELSE IF obj.k = "array" THEN obj
    ELSE IF obj.k = "object"
    THEN [obj EXCEPT !.kids = [i \in 1 .. Len(obj.kids) |-> normalizeBigInts(obj.kids[i])]]
    ELSE obj

\* normalizeBigInts of prepare-signatures.ts (string mode): a mapping with a
\* hex property is replaced by that property, whatever it is.
normalizeBigInts(obj) ==
    IF obj.k = "null" THEN obj
    ELSE IF TypeofObject(obj) /\ HasProp(obj, "hex")
    THEN At(Prop(obj, "hex"), obj.key)
    ELSE IF obj.k = "array"
    THEN [obj EXCEPT !.kids = [i \in 1 .. Len(obj.kids) |-> normalizeBigInts(obj.kids[i])]]
    ELSE IF obj.k = "object"
    THEN [obj EXCEPT !.kids = [i \in 1 .. Len(obj.kids) |-> normalizeBigInts(obj.kids[i])]]
    ELSE obj

\* sanitizeBigInts of sanitize.ts (string mode): a mapping whose hex property
\* is a string is replaced by it; any other mapping is rebuilt entry by entry.
sanitizeBigInts(obj) ==
    IF obj.k = "null" THEN obj
    ELSE IF TypeofObject(obj) /\ HasProp(obj, "hex") /\ Prop(obj, "hex").k = "string"
    THEN At(Prop(obj, "hex"), obj.key)
    ELSE IF obj.k = "array"
    THEN [obj EXCEPT !.kids = [i \in 1 .. Len(obj.kids) |-> sanitizeBigInts(obj.kids[i])]]
    ELSE IF obj.k = "object"
    THEN [obj EXCEPT !.kids = [i \in 1 .. Len(obj.kids) |-> sanitizeBigInts(obj.kids[i])]]
    ELSE obj

\* The rebuilt container, or the exception one of its elements threw.
Rebuilt(obj, kids) ==
    IF \E i \in 1 .. Len(kids) : kids[i].k = "error"
    THEN Thrown
    ELSE [obj EXCEPT !.kids = kids]

\* Variant of fixBigInts that leaves the null elements out of a sequence.
fixBigInts_DropNulls(obj) ==
    IF obj.k = "null" THEN obj
    ELSE IF TypeofObject(obj) /\ HasProp(obj, "hex")
    THEN LET b == BigInt(Prop(obj, "hex"))
         IN IF b.k = "error" THEN Thrown ELSE At(b, obj.key)
    ELSE IF obj.k = "array"
    THEN Rebuilt(obj, SelectSeq([i \in 1 .. Len(obj.kids) |-> fixBigInts(obj.kids[i])],
                                LAMBDA v : v.k # "null"))
    ELSE IF obj.k = "object"
    THEN Rebuilt(obj, [i \in 1 .. Len(obj.kids) |-> fixBigInts(obj.kids[i])])
    ELSE obj

\* fixBigInts of execute.ts (numeric mode): a mapping with a hex property is
\* replaced by BigInt(obj.hex), which throws on what spells no integer.
fixBigInts(obj) ==
    IF obj.k = "null" THEN obj
    ELSE IF TypeofObject(obj) /\ HasProp(obj, "hex")
    THEN LET b == BigInt(Prop(obj, "hex"))
         IN IF b.k = "error" THEN Thrown ELSE At(b, obj.key)
    ELSE IF obj.k = "array"
    THEN Rebuilt(obj, [i \in 1 .. Len(obj.kids) |-> fixBigInts(obj.kids[i])])
    ELSE IF obj.k = "object"
    THEN Rebuilt(obj, [i \in 1 .. Len(obj.kids) |-> fixBigInts(obj.kids[i])])
    ELSE obj


\* The values the normalizers are applied to: scalars, and two levels of
\* sequences and mappings over them.  A mapping has up to two of the keys a,
\* b and hex, in either order.  The elements of an outer sequence and the
\* entries of an outer mapping of two keys are scalars and mappings of one
\* key; an outer mapping of one key holds any inner value.
Scalars == { Str("0x1"), Num("5"), Null }
KeyOrders1 == { << >>, << "a" >>, << "hex" >> }
KeyOrders2 == { << "a", "hex" >>, << "hex", "a" >>, << "a", "b" >>, << "b", "a" >> }
ArraysOver(S) ==
    UNION { { Arr(f) : f \in [1 .. m -> S] } : m \in 0 .. MaxItems }
ObjectsOver(S, orders) ==
    UNION { { Obj([i \in 1 .. Len(ks) |-> At(f[i], ks[i])]) : f \in [1 .. Len(ks) -> S] }
            : ks \in orders }
Level1 ==
    Scalars \cup ArraysOver(Scalars) \cup ObjectsOver(Scalars, KeyOrders1 \cup KeyOrders2)
Small == Scalars \cup ObjectsOver(Scalars, { << "a" >>, << "hex" >> })
Values ==
    Level1 \cup ArraysOver(Small) \cup ObjectsOver(Level1, KeyOrders1)
           \cup ObjectsOver(Small, KeyOrders2)

Normalizers == { "normalizeBigInts", "sanitizeBigInts", "fixBigInts" }

\* No tool call is in progress.
HandlerIdle ==
    /\ envKey = "unset"
    /\ params = [ permit2SigningPayload |-> NoPayload, bridgeSigningPayload |-> FALSE,
                  permit2Signature |-> Absent, userSignature |-> Absent,
                  approvals |-> 0, sourceChainId |-> Undefined, broadcast |-> FALSE ]
    /\ pc = "idle"
    /\ hasPrivateKey = FALSE
    /\ hasExternalSignatures = FALSE
    /\ sourceChainId = Undefined
    /\ mode = "unset"
    /\ walletClient = FALSE
    /\ permit2Signature = Absent
    /\ userSignature = Absent
    /\ idx = 0
    /\ gasRead = Idle
    /\ feeRead = Idle
    /\ lastTx = NoTx
    /\ solveArgs = NoSolve
    /\ solveOutcome = "none"
    /\ approvalsSubmitted = 0
    /\ receiptsObserved = 0
    /\ signCalls = 0
    /\ solveCalls = 0
    /\ mainSubmitted = 0
    /\ rpcCalls = 0
    /\ failedApproval = 0
    /\ result = NoResult
    /\ clientRpc = NoClients
    /\ response = NoResponse
    /\ entryKey = Absent
    /\ accountKey = Absent
    /\ clientChains = { }
    /\ upstream = NoUpstream

handlerVars ==
    << envKey, params, pc, hasPrivateKey, hasExternalSignatures, sourceChainId,
       mode, walletClient, permit2Signature, userSignature, idx, gasRead,
       feeRead, lastTx, solveArgs, solveOutcome, approvalsSubmitted,
       receiptsObserved, signCalls, solveCalls, mainSubmitted, rpcCalls,
       failedApproval, result, clientRpc, response, entryKey, accountKey,
       clientChains, upstream >>

\* A normalizer and the value it is first applied to.
NormInit ==
    /\ HandlerIdle
    /\ envRpc = [id |-> 1, value |-> Absent]
    /\ reg = NoReg
    /\ norm \in { [fn |-> f, vals |-> << v >>] : f \in Normalizers, v \in Values }

\* The normalizer is applied to the value it returned last: to the input,
\* then to its own result.
ApplyNormalizeBigInts ==
    /\ norm.fn = "normalizeBigInts"
    /\ Len(norm.vals) < 3
    /\ norm' = [norm EXCEPT !.vals = Append(@, normalizeBigInts(@[Len(@)]))]
    /\ UNCHANGED << handlerVars, envRpc, reg >>

ApplySanitizeBigInts ==
    /\ norm.fn = "sanitizeBigInts"
    /\ Len(norm.vals) < 3
    /\ norm' = [norm EXCEPT !.vals = Append(@, sanitizeBigInts(@[Len(@)]))]
    /\ UNCHANGED << handlerVars, envRpc, reg >>

\* A call that threw has returned nothing to apply fixBigInts to.
ApplyFixBigInts ==
    /\ norm.fn = "fixBigInts"
    /\ Len(norm.vals) < 3
    /\ norm.vals[Len(norm.vals)] # Thrown
    /\ norm' = [norm EXCEPT !.vals = Append(@, fixBigInts(@[Len(@)]))]
    /\ UNCHANGED << handlerVars, envRpc, reg >>

NormNext ==
    \/ ApplyNormalizeBigInts
    \/ ApplySanitizeBigInts
    \/ ApplyFixBigInts

NormSpec == NormInit /\ [][NormNext]_vars

\* --------------------------------------------------------- the chain registry
\* The chain ids the registry lookups are asked about: the supported ones,
\* one only the quote tool knows, and one nothing knows.
RegChainIds == CHAIN_MAP \cup { SLUG_TO_CHAIN_ID["megaeth"], UnsupportedId }

\* A chain id, and the one RPC_URL_<id> variable of the environment.
RegInit ==
    /\ HandlerIdle
    /\ norm = NoNorm
    /\ envRpc \in { [id |-> c, value |-> v] :
                      c \in RegChainIds,
                      v \in { Absent, Empty, "https://rpc.override.example" } }
    /\ reg \in { [NoReg EXCEPT !.chainId = c] : c \in RegChainIds }

\* getRpcUrl(chainId) is called.
AskRpcUrl ==
    /\ reg.rpcUrl = NoUrl
    /\ reg' = [reg EXCEPT !.asked = TRUE, !.rpcUrl = getRpcUrl(reg.chainId)]
    /\ UNCHANGED << handlerVars, envRpc, norm >>

\* getExplorerUrl(chainId, txHash) is called.
AskExplorerUrl ==
    /\ reg.explorerUrl = NoUrl
    /\ reg' = [reg EXCEPT !.asked = TRUE,
                          !.explorerUrl = getExplorerUrl(NumId(reg.chainId), "0xMainHash")]
    /\ UNCHANGED << handlerVars, envRpc, norm >>

RegNext ==
    \/ AskRpcUrl
    \/ AskExplorerUrl

RegSpec == RegInit /\ [][RegNext]_vars

\* ------------------------------------------------------------------ claims
\* The inputs of a run, as the claims name them.
KeyConfigured == envKey # "unset"
ExternalSupplied ==
    \/ params.permit2Signature \notin { Absent, Empty }
    \/ params.userSignature \notin { Absent, Empty }
Terminated == pc = "done"

\* The mode selection table of the specification.
TableMode ==
    IF KeyConfigured /\ ~ExternalSupplied THEN "self-contained"
    ELSE IF ExternalSupplied THEN "external-signatures"
    ELSE IF ~params.broadcast THEN "prepare-only"
    ELSE "reject"

\* The supported set: the chain ids that are keys of CHAIN_MAP.
InSupportedSet(id) == id.t = "number" /\ id.n \in CHAIN_MAP

\* C1: the mode of a run is the one the selection table gives for (hasKey,
\* hasExternalSignatures, broadcast): the mode variable, once assigned, and the
\* mode of every successful result are the table's, and a run the table rejects
\* ends with success = false.
C1_ModeMatchesTable ==
    /\ mode # "unset" => mode = TableMode
    /\ Terminated /\ result.success => result.mode = TableMode
    /\ Terminated /\ TableMode = "reject" => ~result.success /\ mode = "unset"

\* C1 witness: a successful run with a key and an external signature, whose
\* result reports external-signatures.
C1_Witness ==
    /\ Terminated /\ result.success
    /\ KeyConfigured /\ ExternalSupplied
    /\ result.mode = "external-signatures"

\* C2 (as claimed): every failure result reports the mode the table assigns to
\* the run's inputs.
C2_FailureReportsActiveMode ==
    Terminated /\ ~result.success /\ TableMode # "reject"
        => result.mode = TableMode

\* C3: txHash is present exactly when the run succeeded, broadcast was requested
\* and the main transaction was submitted; explorerUrl comes only with txHash.
C3_TxHashIffBroadcast ==
    /\ (result.txHash # Absent)
         <=> (Terminated /\ result.success /\ params.broadcast /\ mainSubmitted = 1)
    /\ (result.explorerUrl # << >>) <=> (result.txHash # Absent)

\* C3 witness: a broadcast run that returned a transaction hash.
C3_Witness ==
    Terminated /\ result.txHash = "0xMainHash" /\ params.broadcast /\ mainSubmitted = 1

\* C4: in a self-contained run each approval is submitted only after the
\* receipt of the one before it, and nothing is signed, solved or broadcast
\* before the receipt of the last approval.
C4_ApprovalsConfirmedInOrder ==
    mode = "self-contained" =>
        /\ approvalsSubmitted <= receiptsObserved + 1
        /\ approvalsSubmitted <= params.approvals
        /\ (signCalls > 0 \/ solveCalls > 0 \/ mainSubmitted > 0
            \/ pc \in { "signPermit2", "signBridge", "solve", "solveWait",
                        "mainEstimate", "mainSend" })
              => receiptsObserved = params.approvals

\* C4 witness: three approvals confirmed, then both payloads signed, solve
\* called and the main transaction submitted.
C4_Witness ==
    /\ mode = "self-contained" /\ params.approvals = 3
    /\ receiptsObserved = 3 /\ signCalls = 2 /\ solveCalls = 1 /\ mainSubmitted = 1

\* C5: once the submission or the receipt wait of approval i has failed, the run
\* has ended in failure, no later approval was submitted and nothing was signed,
\* solved or broadcast.
C5_ApprovalFailureAborts ==
    failedApproval > 0 =>
        /\ Terminated /\ ~result.success
        /\ approvalsSubmitted = failedApproval
        /\ signCalls = 0 /\ solveCalls = 0 /\ mainSubmitted = 0

\* C5 witness: a three-element list whose second confirmation fails.
C5_Witness ==
    /\ params.approvals = 3 /\ failedApproval = 2
    /\ result.error = "ApprovalConfirmationFailed"
    /\ receiptsObserved = 1 /\ approvalsSubmitted = 2

\* C6 (as claimed): with broadcast = false no transaction of any kind is
\* submitted, and the run succeeds with the prepared transaction and the
\* signatures whenever solve returns a transaction.
C6_NoBroadcastSubmitsNothing ==
    ~params.broadcast =>
        /\ approvalsSubmitted = 0 /\ mainSubmitted = 0
        /\ Terminated /\ solveOutcome = "transaction"
             => result.success /\ result.hasTransaction /\ result.hasSignatures

\* C6 (amended): with broadcast = false the main transaction is never
\* estimated or submitted and no hash is returned; approvals are submitted only
\* by a self-contained run with a non-empty approvals list; and the run
\* succeeds with the prepared transaction and the signatures whenever solve
\* returns a transaction.
C6_NoBroadcastNoMainSubmission ==
    ~params.broadcast =>
        /\ mainSubmitted = 0 /\ lastTx.kind # "main"
        /\ pc \notin { "mainEstimate", "mainSend" }
        /\ result.txHash = Absent
        /\ approvalsSubmitted > 0
             => mode = "self-contained" /\ params.approvals > 0
        /\ Terminated /\ solveOutcome = "transaction"
             => /\ result.success /\ result.hasTransaction /\ result.hasSignatures
                /\ result.permit2Signature = solveArgs.permit2Signature
                /\ result.userSignature = solveArgs.userSignature

\* C6 witness: a self-contained run without broadcast that submitted its
\* approvals and returned the prepared transaction.
C6_Witness ==
    /\ ~params.broadcast /\ Terminated /\ result.success
    /\ mode = "self-contained" /\ approvalsSubmitted = 2
    /\ result.hasTransaction /\ result.txHash = Absent

ClaimedSourceChainId ==
    IF params.permit2SigningPayload.domainChainId.t = "number"
    THEN params.permit2SigningPayload.domainChainId
    ELSE IF params.sourceChainId # Undefined
    THEN params.sourceChainId
    ELSE NumId(DefaultChainId)

\* C8 (as claimed): the resolved source chain id is the numeric chain id of the
\* permit2 payload's domain, else the caller's sourceChainId, else 42161; a
\* domain chain id that is not numeric is passed over.
C8_ChainIdPrecedence ==
    sourceChainId # Undefined => sourceChainId = ClaimedSourceChainId

C10_ExternalSignaturesBypassSigning ==
    ExternalSupplied =>
        /\ signCalls = 0
        /\ solveArgs.called
             => /\ solveArgs.permit2Signature = params.permit2Signature
                /\ solveArgs.userSignature = params.userSignature

\* C10 witness: a key, both signing payloads and only the bridge signature
\* supplied; solve is called with the permit2 slot absent.
C10_Witness ==
    /\ solveArgs.called /\ KeyConfigured
    /\ params.permit2SigningPayload.present /\ params.bridgeSigningPayload
    /\ params.userSignature = "0xUScaller" /\ params.permit2Signature = Absent
    /\ solveArgs.permit2Signature = Absent

\* C11: an approval transaction is submitted only in a run whose mode is
\* self-contained and whose approvals list is non-empty, never more often than
\* the list is long; and a self-contained run that succeeds has submitted every
\* approval of its list.  Runs with caller-supplied signatures (with or
\* without a key) and prepare-only runs submit none.
C11_ApprovalsOnlySelfContained ==
    /\ approvalsSubmitted > 0 =>
         /\ TableMode = "self-contained"
         /\ params.approvals > 0
    /\ approvalsSubmitted <= params.approvals
    /\ TableMode \in { "external-signatures", "prepare-only", "reject" } =>
         approvalsSubmitted = 0
    /\ Terminated /\ result.success /\ TableMode = "self-contained" =>
         approvalsSubmitted = params.approvals

\* A run with a key, caller-supplied signatures and a full approvals list has
\* broadcast its transaction and submitted no approval.
C11_Witness ==
    /\ Terminated /\ result.success /\ result.txHash # Absent
    /\ KeyConfigured /\ ExternalSupplied
    /\ params.approvals = MaxApprovals
    /\ approvalsSubmitted = 0

\* C12: a failed gas or fee read never aborts the run.  When the estimation of
\* an approval or of the main transaction has failed, the step that follows
\* submits that transaction with no gas limit and no fee parameters and
\* returns nothing yet: the result is decided by the submission alone.
C12_EstimationFailureStillSubmits ==
    [][ ( /\ pc \in { "approvalEstimate", "mainEstimate" }
          /\ gasRead.st = "failed" \/ feeRead.st = "failed"
          /\ pc' # pc )
        => /\ pc' = (IF pc = "approvalEstimate" THEN "approvalSend" ELSE "mainSend")
           /\ lastTx'.kind = (IF pc = "approvalEstimate" THEN "approval" ELSE "main")
           /\ ~lastTx'.hasGas
           /\ ~lastTx'.hasFees
           /\ result' = result ]_vars

\* A main transaction submitted without gas parameters has been broadcast and
\* the run has returned its hash.
C12_Witness ==
    /\ Terminated /\ result.success /\ result.txHash # Absent
    /\ lastTx.kind = "main"
    /\ ~lastTx.hasGas /\ ~lastTx.hasFees

\* C13: a gas limit passed to a submission is floor(6 * e / 5) of the raw
\* estimate e: a whole number, never below e, and 120000 for e = 100000.
C13_GasLimitIsSixFifths ==
    lastTx.hasGas =>
        /\ lastTx.gas \in Nat
        /\ 5 * lastTx.gas <= 6 * lastTx.rawGas
        /\ 6 * lastTx.rawGas < 5 * lastTx.gas + 5
        /\ lastTx.gas >= lastTx.rawGas
        /\ lastTx.rawGas = 100000 => lastTx.gas = 120000

\* The main transaction has been submitted with the limit 120000 computed
\* from the raw estimate 100000.
C13_Witness ==
    /\ lastTx.kind = "main" /\ lastTx.hasGas
    /\ lastTx.rawGas = 100000 /\ lastTx.gas = 120000

RECURSIVE HexIsScalar(_)
HexIsScalar(v) ==
    /\ \A i \in 1 .. Len(v.kids) :
         v.kids[i].key = "hex" => v.kids[i].k \notin { "array", "object" }
    /\ \A i \in 1 .. Len(v.kids) : HexIsScalar(v.kids[i])

\* C15 as stated: each normalizer is idempotent on every bounded nested
\* value, a wrapper whose hex field is itself a wrapper or a non-string
\* included: applied to its own result it returns that result.
C15_NormalizersIdempotent ==
    Len(norm.vals) = 3 => norm.vals[3] = norm.vals[2]

\* C15, amended: each normalizer is idempotent, wherever it returns, on every
\* bounded nested value in which the hex field of every mapping is a scalar.
C15_IdempotentOnScalarHex ==
    Len(norm.vals) = 3 /\ HexIsScalar(norm.vals[1]) =>
        norm.vals[3] = norm.vals[2]

\* A normalizer has changed a value with a wrapper inside a mapping, and has
\* left its own result as it was.
C15_Witness ==
    /\ Len(norm.vals) = 3
    /\ norm.vals[1] = Obj(<< At(Obj(<< At(Str("0x1"), "hex") >>), "a"), At(Num("5"), "b") >>)
    /\ norm.vals[2] # norm.vals[1]
    /\ norm.vals[3] = norm.vals[2]

\* A mapping with a hex key is a wrapper and is replaced as a whole; any other
\* mapping or sequence keeps its kind, its length and its keys in order, with
\* the same holding of each element; a scalar stays what it is.
RECURSIVE SameShape(_, _)
SameShape(a, b) ==
    /\ b.key = a.key
    /\ IF a.k = "object" /\ \E i \in 1 .. Len(a.kids) : a.kids[i].key = "hex"
       THEN TRUE
       ELSE IF a.k \in { "array", "object" }
       THEN /\ b.k = a.k
            /\ Len(b.kids) = Len(a.kids)
            /\ \A i \in 1 .. Len(a.kids) : SameShape(a.kids[i], b.kids[i])
       ELSE b = a

RECURSIVE NoWrapper(_)
NoWrapper(v) ==
    /\ ~(v.k = "object" /\ \E i \in 1 .. Len(v.kids) : v.kids[i].key = "hex")
    /\ \A i \in 1 .. Len(v.kids) : NoWrapper(v.kids[i])

\* The values in which the hex field of every mapping is a string.
RECURSIVE HexIsString(_)
HexIsString(v) ==
    /\ \A i \in 1 .. Len(v.kids) : v.kids[i].key = "hex" => v.kids[i].k = "string"
    /\ \A i \in 1 .. Len(v.kids) : HexIsString(v.kids[i])

\* The value built by hand: every mapping carrying a hex string is written as
\* that string, everything else is copied.
RECURSIVE HandBuilt(_)
HandBuilt(v) ==
    IF v.k = "object" /\ \E i \in 1 .. Len(v.kids) : v.kids[i].key = "hex"
    THEN LET h == CHOOSE i \in 1 .. Len(v.kids) : v.kids[i].key = "hex"
         IN [k |-> "string", s |-> v.kids[h].s, key |-> v.key, kids |-> << >>]
    ELSE [v EXCEPT !.kids = [i \in 1 .. Len(v.kids) |-> HandBuilt(v.kids[i])]]

\* C17 as stated: after string-mode normalization of any payload no field of
\* the result, at any depth, is an object carrying a hex field, and a payload
\* whose wrappers hold hex strings normalizes to the one built by hand.
C17_NoWrapperRemains ==
    norm.fn = "normalizeBigInts" /\ Len(norm.vals) >= 2 =>
        /\ NoWrapper(norm.vals[2])
        /\ HexIsString(norm.vals[1]) => norm.vals[2] = HandBuilt(norm.vals[1])

\* C17, amended: after string-mode normalization of a payload in which the
\* hex field of every mapping is a scalar, no field of the result, at any
\* depth, is an object carrying a hex field; and when those hex fields are
\* strings the result is the payload built by hand with each wrapper written
\* as its hex string.
C17_NoWrapperRemainsOnScalarHex ==
    norm.fn = "normalizeBigInts" /\ Len(norm.vals) >= 2 /\ HexIsScalar(norm.vals[1]) =>
        /\ NoWrapper(norm.vals[2])
        /\ HexIsString(norm.vals[1]) => norm.vals[2] = HandBuilt(norm.vals[1])

\* A payload with one wrapped value has been normalized to the payload with
\* the hex string in its place.
C17_Witness ==
    /\ norm.fn = "normalizeBigInts"
    /\ Len(norm.vals) >= 2
    /\ norm.vals[1] = Obj(<< At(Obj(<< At(Str("0x1"), "hex") >>), "a"), At(Num("5"), "b") >>)
    /\ norm.vals[2] = Obj(<< At(Str("0x1"), "a"), At(Num("5"), "b") >>)

\* The chain ids the quote tool's slug table names.
SlugChainIds == { SLUG_TO_CHAIN_ID[slug] : slug \in DOMAIN SLUG_TO_CHAIN_ID }

\* C18: the chain ids handleExecute accepts are exactly the ones advertised
\* elsewhere: a run whose resolved chain id is a number is let past the
\* registry lookup if and only if the id is in the quote tool's slug table,
\* and if and only if it is in the README's table of supported chains.  So
\* every sourceChainId handleGetQuote can return is accepted.
C18_AcceptedIsAdvertised ==
    Terminated /\ sourceChainId.t = "number" =>
        LET accepted == result.error # "UnsupportedChain"
        IN /\ accepted <=> sourceChainId.n \in SlugChainIds
           /\ accepted <=> sourceChainId.n \in README_CHAINS

\* The transport URLs of the clients created so far.
ClientUrls ==
    { u \in { clientRpc.wallet, clientRpc.approvalPublic, clientRpc.mainPublic } :
        u # NoUrl }

C20_UrlPrecedence ==
    LET override == IF envRpc.id = reg.chainId THEN envRpc.value ELSE Absent
    IN /\ reg.rpcUrl # NoUrl =>
            /\ override \notin { Absent, Empty } => reg.rpcUrl = << override >>
            /\ override \in { Absent, Empty } /\ reg.chainId \in DOMAIN publicRpcs =>
                 reg.rpcUrl = << publicRpcs[reg.chainId] >>
            /\ override \in { Absent, Empty } /\ reg.chainId \notin DOMAIN publicRpcs =>
                 reg.rpcUrl = << "https://rpc.ankr.com/", reg.chainId >>
       /\ reg.explorerUrl # NoUrl =>
            /\ reg.chainId \in DOMAIN explorers =>
                 reg.explorerUrl = << explorers[reg.chainId], "/tx/", "0xMainHash" >>
            /\ reg.chainId \notin DOMAIN explorers =>
                 reg.explorerUrl = << "https://blockscan.com", "/tx/", "0xMainHash" >>

\* With RPC_URL_1 set, both lookups have been made for chain 1: the override
\* is the RPC URL, etherscan the explorer.
C20_Witness ==
    /\ reg.chainId = 1
    /\ envRpc = [id |-> 1, value |-> "https://rpc.override.example"]
    /\ reg.rpcUrl = << "https://rpc.override.example" >>
    /\ reg.explorerUrl = << "https://etherscan.io", "/tx/", "0xMainHash" >>

\* The text fields of the result, the pieces of its explorer URL included.
ResultTexts ==
    { result.mode, result.error, result.txHash, result.permit2Signature,
      result.userSignature }
        \cup { result.explorerUrl[i] : i \in DOMAIN result.explorerUrl }

PhaseOf(p) ==
    CASE p = "start" -> 1
      [] p = "resolve" -> 2
      [] p \in { "enter", "approval", "approvalEstimate", "approvalSend", "approvalWait" } -> 3
      [] p \in { "signPermit2", "signBridge" } -> 4
      [] p \in { "solve", "solveWait" } -> 5
      [] p \in { "mainEstimate", "mainSend" } -> 6
      [] OTHER -> 7

\* C22: a run never steps from a phase to an earlier one (so no phase is
\* entered twice); once solve was called no payload is signed and no approval
\* is submitted any more, and the reads for the main transaction and its
\* submission happen only after solve has returned a transaction.
C22_PhasesInOrder ==
    [][ /\ PhaseOf(pc') >= PhaseOf(pc)
        /\ solveArgs.called =>
              /\ signCalls' = signCalls
              /\ approvalsSubmitted' = approvalsSubmitted
        /\ solveCalls' # solveCalls => PhaseOf(pc) = 5 /\ pc' = "solveWait"
        /\ pc' \in { "mainEstimate", "mainSend" } \/ mainSubmitted' # mainSubmitted =>
              /\ solveArgs.called
              /\ solveOutcome' = "transaction" ]_vars

\* A run went through every phase: approvals, both signatures, solve, broadcast.
C22_Witness ==
    /\ Terminated /\ result.success
    /\ approvalsSubmitted = 2
    /\ signCalls = 2
    /\ solveCalls = 1
    /\ mainSubmitted = 1

\* The number of signing payloads supplied, the bridge payload left out or not.
PayloadCount(withBridge) ==
    (IF params.permit2SigningPayload.present THEN 1 ELSE 0)
        + (IF withBridge /\ params.bridgeSigningPayload THEN 1 ELSE 0)

\* C23: nothing is retried: at most one solve call and one submission of the
\* main transaction, at most one submission per approval step (the count of
\* submissions never exceeds the step the loop is at, nor the list), and at
\* most one signTypedData call per payload supplied.
C23_NoRetries ==
    /\ solveCalls <= 1
    /\ mainSubmitted <= 1
    /\ approvalsSubmitted <= idx /\ idx <= params.approvals
    /\ pc \in { "approval", "approvalEstimate" } => approvalsSubmitted = idx - 1
    /\ signCalls <= PayloadCount(TRUE)
    /\ pc = "signPermit2" => signCalls = 0
    /\ pc = "signBridge" => signCalls <= PayloadCount(FALSE)

\* A run failed at the broadcast after approvals, signatures and solve: each
\* was done once and the run ended.
C23_Witness ==
    /\ Terminated /\ result.error = "BroadcastFailed"
    /\ approvalsSubmitted = params.approvals /\ params.approvals = MaxApprovals
    /\ signCalls = 2
    /\ solveCalls = 1
    /\ mainSubmitted = 1

\* The error text the claim expects for the non-success response received:
\* the upstream status and the upstream message.
ClaimedSolveError ==
    CASE upstream.status = "410" -> "Haiku API error (410): Quote expired"
      [] upstream.status = "500" -> "Haiku API error (500): Internal Server Error"
      [] upstream.status = "502" -> "Haiku API error (502): Bad Gateway"
      [] OTHER -> Absent

\* C24: when the solve call receives a non-success response the run ends with
\* success=false and an error text carrying the upstream status and message,
\* and neither the reads for the main transaction are issued nor the main
\* transaction is submitted.
C24_SolveFailureEndsRun ==
    solveOutcome = "httpError" =>
        /\ Terminated
        /\ ~result.success
        /\ result.error = ClaimedSolveError
        /\ result.txHash = Absent
        /\ mainSubmitted = 0
        /\ lastTx.kind # "main"
        /\ clientRpc.mainPublic = NoUrl
        /\ gasRead = Idle /\ feeRead = Idle

\* A run that was to broadcast with a key received status 500 from solve.
C24_Witness ==
    /\ Terminated
    /\ solveOutcome = "httpError"
    /\ upstream.status = "500" /\ upstream.message = Absent
    /\ result.error = "Haiku API error (500): Internal Server Error"
    /\ params.broadcast /\ walletClient

\* C25: when every suspension point eventually returns or fails, every run
\* eventually ends (with a result, or refused before the handler by the
\* parameter check), whatever the approvals list and the failures.
C25_RunTerminates == <>(Terminated \/ pc = "rejected")

\* A run over the longest approvals list ended at the receipt of the last one.
C25_Witness ==
    /\ Terminated
    /\ params.approvals = MaxApprovals
    /\ approvalsSubmitted = MaxApprovals
    /\ failedApproval = MaxApprovals
    /\ result.error = "ApprovalConfirmationFailed"

\* C26: the gas read and the fee read of a transaction are issued in the same
\* step, and the submission applies their results all or nothing, whichever
\* read completed first: the gas limit and the fee parameters are both present
\* when both reads of this transaction succeeded and both absent otherwise,
\* and a gas limit present is the one computed from this transaction's estimate.
C26_GasAndFeesAllOrNothing ==
    [][ /\ (gasRead'.st = "pending" /\ gasRead.st # "pending")
            <=> (feeRead'.st = "pending" /\ feeRead.st # "pending")
        /\ lastTx' # lastTx =>
              /\ pc \in { "approvalEstimate", "mainEstimate" }
              /\ lastTx'.hasGas <=> lastTx'.hasFees
              /\ lastTx'.hasGas <=> (gasRead.st = "ok" /\ feeRead.st = "ok")
              /\ lastTx'.hasGas =>
                    /\ lastTx'.rawGas = gasRead.v
                    /\ lastTx'.gas = (6 * gasRead.v) \div 5
              /\ gasRead' = Idle /\ feeRead' = Idle ]_vars

\* The second approval was submitted with both its gas limit and its fee
\* parameters.
C26_Witness ==
    /\ pc = "approvalSend"
    /\ idx = 2 /\ approvalsSubmitted = 2
    /\ lastTx.kind = "approval"
    /\ lastTx.hasGas /\ lastTx.hasFees /\ lastTx.rawGas = 100000

\* The RPC URLs of the clients created so far in the run.
RunClientUrls ==
    { clientRpc[c] : c \in { c \in DOMAIN clientRpc : clientRpc[c] # NoUrl } }

\* The key that decided the mode is the key the account was derived from.
KeyReadOnce == accountKey # Absent => accountKey = entryKey

\* C27 (as claimed): the environment is read once per run: all clients of a
\* run (wallet, approval public, gas-estimation public) have the same RPC URL
\* and the account is derived from the key that decided the mode, even when
\* the environment changes while the run is suspended.
C27_EnvReadOnce ==
    /\ Cardinality(RunClientUrls) <= 1
    /\ KeyReadOnce

\* C28: in self-contained mode the permit2 slot passed to solve holds a
\* signature exactly when a permit2 payload was supplied, and the bridge slot
\* exactly when a bridge payload was supplied; a slot that holds one holds the
\* signature made with the key.  With neither payload and no approvals nothing
\* is signed, no approval is submitted and no RPC request precedes solve, solve
\* gets no signature, and the run (broadcast requested, solve answering with a
\* transaction) goes on to submit the main transaction.
C28_SlotsFollowPayloads ==
    mode = "self-contained" /\ solveArgs.called =>
        /\ TruthyStr(solveArgs.permit2Signature) <=> params.permit2SigningPayload.present
        /\ TruthyStr(solveArgs.userSignature) <=> params.bridgeSigningPayload
        /\ params.permit2SigningPayload.present => solveArgs.permit2Signature = "0xP2signed"
        /\ params.bridgeSigningPayload => solveArgs.userSignature = "0xUSsigned"
        /\ ( /\ ~params.permit2SigningPayload.present
             /\ ~params.bridgeSigningPayload
             /\ params.approvals = 0 )
           => /\ signCalls = 0
              /\ approvalsSubmitted = 0
              /\ pc = "solveWait" => rpcCalls = 0
              /\ solveArgs.permit2Signature = params.permit2Signature
              /\ solveArgs.userSignature = params.userSignature
              /\ ( Terminated /\ params.broadcast /\ solveOutcome = "transaction" )
                    => mainSubmitted = 1 /\ lastTx.kind = "main"

\* Self-contained, no payload, no approvals, broadcast: solve was called with
\* no signature and the transaction was broadcast.
C28_Witness ==
    /\ Terminated /\ result.success /\ mode = "self-contained"
    /\ params.approvals = 0
    /\ ~params.permit2SigningPayload.present /\ ~params.bridgeSigningPayload
    /\ solveArgs.called
    /\ solveArgs.permit2Signature = Absent /\ solveArgs.userSignature = Absent
    /\ result.txHash = "0xMainHash"

\* C29: whenever the reads for the main transaction are pending or the main
\* transaction has been submitted, a wallet client exists and its account was
\* derived from the configured key; the broadcast is never attempted on an
\* undefined wallet client.
C29_BroadcastHasWalletClient ==
    /\ pc \in { "mainEstimate", "mainSend" } \/ lastTx.kind = "main" \/ mainSubmitted > 0
          => /\ walletClient
             /\ KeyConfigured
             /\ accountKey = envKey
             /\ clientRpc.wallet # NoUrl
    /\ result.error # "WalletClientUndefined"

\* An external-signatures run with a key has submitted the main transaction.
C29_Witness ==
    /\ pc = "mainSend"
    /\ mode = "external-signatures"
    /\ walletClient /\ accountKey = "valid"
    /\ mainSubmitted = 1

\* C30: a successful result reports exactly the two signature slots that were
\* passed to solve, and the chain id of its transaction is the chain id
\* resolved at the start of the run, which is the one chain every client of
\* the run was created for.
C30_ResultMatchesSolveAndChain ==
    /\ Cardinality(clientChains) <= 1
    /\ sourceChainId # Undefined => clientChains \subseteq { sourceChainId.n }
    /\ Terminated /\ result.success =>
          /\ solveArgs.called
          /\ result.hasSignatures
          /\ result.permit2Signature = solveArgs.permit2Signature
          /\ result.userSignature = solveArgs.userSignature
          /\ result.hasTransaction
          /\ result.chainId = sourceChainId
          /\ sourceChainId = ResolveSourceChainId(params)
          /\ walletClient => clientChains = { result.chainId.n }

\* A self-contained run on the payload's chain 10 (the caller named chain 1)
\* signed the permit2 payload, broadcast and reported the signature it made.
C30_Witness ==
    /\ Terminated /\ result.success
    /\ params.sourceChainId = NumId(1)
    /\ result.chainId = NumId(10)
    /\ clientChains = { 10 }
    /\ result.permit2Signature = "0xP2signed"
    /\ solveArgs.permit2Signature = "0xP2signed"
    /\ result.txHash # Absent

====
